---- MODULE Spec2Model ----
(***************************************************************************)
(* Reconstruction of a world manifest from the ledger's event log          *)
(* (crates/dojo-world/src/manifest.rs): the paginated event fetch, the     *)
(* classification of events, the reconciliation of contract deployments    *)
(* and upgrades, the model registration chain and the name resolution.     *)
(*                                                                         *)
(* Field elements are natural numbers.  Option<T> is a sequence of length  *)
(* at most one (None is <<>>, Some(x) is <<x>>).  A String is the sequence *)
(* of its byte values.  A HashMap is a function on its key set.            *)
(***************************************************************************)
EXTENDS Integers, Sequences, FiniteSets, TLC

VARIABLES
    pc,                        \* position of the running function
    calls,                     \* ledger calls issued so far, in order
    replies,                   \* what the ledger answered to each call
    continuation_token,        \* get_events: Option<String>
    events,                    \* get_events: Vec<EmittedEvent>
    registered_models_events,  \* bucket / input of parse_models_events
    contract_deployed_events,  \* bucket / input of parse_contracts_events
    contract_upgraded_events,  \* bucket / input of parse_contracts_events
    models_map,                \* parse_models_events: HashMap<String, FieldElement>
    cursor,                    \* number of loop iterations completed
    models,                    \* Vec<Model>
    contracts,                 \* Vec<Contract>
    bootstrap,                 \* world/base/resource_metadata facts read so far
    manifest,                  \* Option<Manifest>: the value returned with Ok
    result                     \* what the function returned (or that it has not yet)

vars == <<pc, calls, replies, continuation_token, events, registered_models_events,
          contract_deployed_events, contract_upgraded_events, models_map, cursor,
          models, contracts, bootstrap, manifest, result>>

-----------------------------------------------------------------------------
(* Bounds of the model. *)

MaxDeployed == 2      \* deployment events given to parse_contracts_events
MaxUpgraded == 3      \* upgrade events given to parse_contracts_events
MaxRegistered == 3    \* registration events given to parse_models_events
MaxPages == 3         \* pages the ledger serves before its token must be absent

-----------------------------------------------------------------------------
(* Option, Result and panics. *)

None == <<>>
Some(x) == <<x>>
IsSome(o) == Len(o) = 1

\* The value of a computation that may panic (expect / unwrap / index).
Returned(v) == [panic |-> FALSE, msg |-> "", val |-> v]
Panicked(m) == [panic |-> TRUE, msg |-> m, val |-> <<>>]

EmptyMap == <<>>

SeqsUpTo(S, n) == UNION {[1..k -> S] : k \in 0..n}

RECURSIVE Concat(_)
Concat(ss) == IF ss = <<>> THEN <<>> ELSE Head(ss) \o Concat(Tail(ss))

-----------------------------------------------------------------------------
(* Short strings: starknet::core::utils::parse_cairo_short_string.  The    *)
(* big-endian bytes of the field element, leading zero bytes skipped; a    *)
(* zero byte after the first character is an error.  Every field element   *)
(* of the model is below 2^248, so the out-of-range error does not arise.  *)

RECURSIVE BytesBE(_)
BytesBE(felt) == IF felt = 0 THEN <<>> ELSE Append(BytesBE(felt \div 256), felt % 256)

parse_cairo_short_string(felt) ==
    IF felt = 0
    THEN [ok |-> TRUE, str |-> <<>>]
    ELSE IF \E k \in 1..Len(BytesBE(felt)) : BytesBE(felt)[k] = 0
         THEN [ok |-> FALSE, str |-> <<>>]
         ELSE [ok |-> TRUE, str |-> BytesBE(felt)]

-----------------------------------------------------------------------------
(* Events and records. *)

registered_models_event_name == 901
contract_deployed_event_name == 902
contract_upgraded_event_name == 903

Event(key, data, block) == [keys |-> <<key>>, data |-> data, block_number |-> block]

\* Contract { address: Some(address), class_hash, ..Default::default() }
Contract(address, class_hash) ==
    [name |-> <<>>, address |-> Some(address), class_hash |-> class_hash,
     abi |-> None, reads |-> <<>>, writes |-> <<>>, computed |-> <<>>]

\* Model { name, class_hash, ..Default::default() }
Model(name, class_hash) ==
    [name |-> name, members |-> <<>>, class_hash |-> class_hash, abi |-> None]

-----------------------------------------------------------------------------
(* parse_contracts_events *)

\* Faulty variant of Upgrade: an event without a block number is taken to be
\* of block 0 instead of being skipped.
UpgradeNoBlockCheck(upgrades, event) ==
    IF Len(event.data) < 1 THEN Panicked("qed; missing class hash")
    ELSE IF Len(event.data) < 2 THEN Panicked("qed; missing address")
    ELSE LET class_hash == event.data[1]
             address == event.data[2]
             num == IF IsSome(event.block_number) THEN event.block_number[1] ELSE 0
         IN  IF address \in DOMAIN upgrades
             THEN IF upgrades[address][1] < num
                  THEN Returned([upgrades EXCEPT ![address] = <<num, class_hash>>])
                  ELSE Returned(upgrades)
             ELSE Returned(upgrades @@ (address :> <<num, class_hash>>))

\* Faulty variant of Upgrade: the recorded pair is replaced without comparing
\* block numbers, so the last event in retrieval order wins.
UpgradeLastWins(upgrades, event) ==
    IF Len(event.data) < 1 THEN Panicked("qed; missing class hash")
    ELSE IF Len(event.data) < 2 THEN Panicked("qed; missing address")
    ELSE LET class_hash == event.data[1]
             address == event.data[2]
         IN  IF IsSome(event.block_number)
             THEN LET num == event.block_number[1]
                  IN  IF address \in DOMAIN upgrades
                      THEN Returned([upgrades EXCEPT ![address] = <<num, class_hash>>])
                      ELSE Returned(upgrades @@ (address :> <<num, class_hash>>))
             ELSE Returned(upgrades)

\* Faulty variant of Upgrade: an event of the recorded block number replaces
\* the recorded pair too (<= in place of <).
UpgradeTieLastWins(upgrades, event) ==
    IF Len(event.data) < 1 THEN Panicked("qed; missing class hash")
    ELSE IF Len(event.data) < 2 THEN Panicked("qed; missing address")
    ELSE LET class_hash == event.data[1]
             address == event.data[2]
         IN  IF IsSome(event.block_number)
             THEN LET num == event.block_number[1]
                  IN  IF address \in DOMAIN upgrades
                      THEN IF upgrades[address][1] <= num
                           THEN Returned([upgrades EXCEPT ![address] = <<num, class_hash>>])
                           ELSE Returned(upgrades)
                      ELSE Returned(upgrades @@ (address :> <<num, class_hash>>))
             ELSE Returned(upgrades)

\* The closure of retain_only_latest_upgrade_events applied to one event;
\* upgrades : addr -> (block_num, class_hash).
Upgrade(upgrades, event) ==
    IF Len(event.data) < 1 THEN Panicked("qed; missing class hash")
    ELSE IF Len(event.data) < 2 THEN Panicked("qed; missing address")
    ELSE LET class_hash == event.data[1]
             address == event.data[2]
         IN  IF IsSome(event.block_number)
             THEN LET num == event.block_number[1]
                  IN  IF address \in DOMAIN upgrades
                      THEN IF upgrades[address][1] < num
                           THEN Returned([upgrades EXCEPT ![address] = <<num, class_hash>>])
                           ELSE Returned(upgrades)
                      ELSE Returned(upgrades @@ (address :> <<num, class_hash>>))
             ELSE Returned(upgrades)

\* events.into_iter().for_each(closure), from the empty map.
RECURSIVE UpgradesFold(_, _)
UpgradesFold(upgrades, evs) ==
    IF evs = <<>> THEN Returned(upgrades)
    ELSE LET r == Upgrade(upgrades, Head(evs))
         IN  IF r.panic THEN r ELSE UpgradesFold(r.val, Tail(evs))

\* addr -> class_hash of the latest upgrade that carries a block number.
retain_only_latest_upgrade_events(evs) ==
    LET r == UpgradesFold(EmptyMap, evs)
    IN  IF r.panic THEN r
        ELSE Returned([addr \in DOMAIN r.val |-> r.val[addr][2]])

\* The closure mapped over the deployment events.
DeployedContract(upgradeds, event) ==
    IF Len(event.data) < 1 THEN Panicked("salt is missing from event")
    ELSE IF Len(event.data) < 2 THEN Panicked("class hash is missing from event")
    ELSE IF Len(event.data) < 3 THEN Panicked("addresss is missing from event")
    ELSE LET address == event.data[3]
         IN  Returned(Contract(address,
                               IF address \in DOMAIN upgradeds
                               THEN upgradeds[address]
                               ELSE event.data[2]))

RECURSIVE DeployedMap(_, _)
DeployedMap(upgradeds, evs) ==
    IF evs = <<>> THEN Returned(<<>>)
    ELSE LET r == DeployedContract(upgradeds, Head(evs))
         IN  IF r.panic THEN r
             ELSE LET rest == DeployedMap(upgradeds, Tail(evs))
                  IN  IF rest.panic THEN rest ELSE Returned(<<r.val>> \o rest.val)

\* Faulty variant of parse_contracts_events: an address known from upgrade
\* events alone is materialized too.
RECURSIVE MapEntries(_, _)
MapEntries(m, keys) ==
    IF keys = {} THEN <<>>
    ELSE LET k == CHOOSE x \in keys : \A y \in keys : x <= y
         IN  <<Contract(k, m[k])>> \o MapEntries(m, keys \ {k})

parse_contracts_events_orphans(deployed, upgraded) ==
    LET upgradeds == retain_only_latest_upgrade_events(upgraded)
    IN  IF upgradeds.panic THEN upgradeds
        ELSE LET r == DeployedMap(upgradeds.val, deployed)
             IN  IF r.panic THEN r
                 ELSE Returned(r.val \o MapEntries(upgradeds.val,
                          {a \in DOMAIN upgradeds.val :
                              \A i \in 1..Len(r.val) : r.val[i].address # Some(a)}))

\* Faulty variant of parse_contracts_events: a deployment event equal to an
\* earlier one is merged into it.
parse_contracts_events_distinct(deployed, upgraded) ==
    LET upgradeds == retain_only_latest_upgrade_events(upgraded)
        first[n \in 0..Len(deployed)] ==
            IF n = 0 THEN <<>>
            ELSE IF \E j \in 1..(n - 1) : deployed[j] = deployed[n]
                 THEN first[n - 1]
                 ELSE Append(first[n - 1], deployed[n])
    IN  IF upgradeds.panic THEN upgradeds
        ELSE DeployedMap(upgradeds.val, first[Len(deployed)])

parse_contracts_events(deployed, upgraded) ==
    LET upgradeds == retain_only_latest_upgrade_events(upgraded)
    IN  IF upgradeds.panic THEN upgradeds
        ELSE DeployedMap(upgradeds.val, deployed)

-----------------------------------------------------------------------------
(* parse_models_events *)

\* WorldEvent::try_from(EmittedEvent) (crate::contracts::world, generated from
\* the world's ABI): the variant is chosen by the first key; the payload of a
\* registration is [class_hash, prev_class_hash, name].
TryIntoWorldEvent(e) ==
    IF e.keys = <<>> THEN [variant |-> "Err", name |-> 0, class_hash |-> 0, prev_class_hash |-> 0]
    ELSE IF Head(e.keys) # registered_models_event_name
         THEN [variant |-> "Other", name |-> 0, class_hash |-> 0, prev_class_hash |-> 0]
    ELSE IF Len(e.data) < 3
         THEN [variant |-> "Err", name |-> 0, class_hash |-> 0, prev_class_hash |-> 0]
    ELSE [variant |-> "ModelRegistered", name |-> e.data[3],
          class_hash |-> e.data[1], prev_class_hash |-> e.data[2]]

\* Faulty variant of Register without the unconditional first insertion: an
\* absent entry counts as the zero class hash.
RegisterChainOnly(map, e) ==
    LET w == TryIntoWorldEvent(e)
    IN  IF w.variant = "Err"
        THEN Panicked("ModelRegistered event is expected to be parseable")
        ELSE IF w.variant # "ModelRegistered" THEN Panicked("ModelRegistered expected")
        ELSE LET s == parse_cairo_short_string(w.name)
             IN  IF ~s.ok THEN Panicked("unwrap on a ParseCairoShortStringError")
                 ELSE IF s.str \in DOMAIN map
                      THEN IF map[s.str] = w.prev_class_hash
                           THEN Returned([map EXCEPT ![s.str] = w.class_hash])
                           ELSE Returned(map)
                      ELSE IF w.prev_class_hash = 0
                           THEN Returned(map @@ (s.str :> w.class_hash))
                           ELSE Returned(map)

\* The body of the loop over the registration events, for one event.
Register(map, e) ==
    LET w == TryIntoWorldEvent(e)
    IN  IF w.variant = "Err"
        THEN Panicked("ModelRegistered event is expected to be parseable")
        ELSE IF w.variant # "ModelRegistered" THEN Panicked("ModelRegistered expected")
        ELSE LET s == parse_cairo_short_string(w.name)
             IN  IF ~s.ok THEN Panicked("unwrap on a ParseCairoShortStringError")
                 ELSE IF s.str \in DOMAIN map
                      THEN IF map[s.str] = w.prev_class_hash
                           THEN Returned([map EXCEPT ![s.str] = w.class_hash])
                           ELSE Returned(map)
                      ELSE Returned(map @@ (s.str :> w.class_hash))

RECURSIVE RegisterFold(_, _)
RegisterFold(map, evs) ==
    IF evs = <<>> THEN Returned(map)
    ELSE LET r == Register(map, Head(evs))
         IN  IF r.panic THEN r ELSE RegisterFold(r.val, Tail(evs))

\* Faulty variant of ModelsVecs: one record per position with no regard to
\* the names already emitted, so a name may repeat and another be left out.
ModelsVecsRepeating(map) ==
    {[k \in 1..Cardinality(DOMAIN map) |-> Model(order[k], map[order[k]])] :
        order \in [1..Cardinality(DOMAIN map) -> DOMAIN map]}

\* models.into_iter().map(..).collect(): a HashMap iterates in an arbitrary
\* order, so every ordering of the entries is a possible Vec<Model>.
ModelsVecs(map) ==
    {[k \in 1..Cardinality(DOMAIN map) |-> Model(order[k], map[order[k]])] :
        order \in {o \in [1..Cardinality(DOMAIN map) -> DOMAIN map] :
                      \A x, y \in 1..Cardinality(DOMAIN map) : o[x] = o[y] => x = y}}

\* The name -> class_hash map of parse_models_events before it is collected.
parse_models_events(evs) == RegisterFold(EmptyMap, evs)

-----------------------------------------------------------------------------
(* Outcomes, and the state of everything a specification does not use. *)

\* What the running function has returned: nothing yet, Ok, Err(ManifestError)
\* (err is the variant, cause the error it wraps), or a panic (err is the
\* message).
Pending == [kind |-> "Pending", err |-> "", cause |-> ""]
Ok == [kind |-> "Ok", err |-> "", cause |-> ""]
Err(e, c) == [kind |-> "Err", err |-> e, cause |-> c]
Panic(m) == [kind |-> "Panic", err |-> m, cause |-> ""]

NoLedger ==
    /\ calls = <<>>
    /\ replies = <<>>
    /\ continuation_token = None
    /\ events = <<>>
    /\ bootstrap = <<>>
    /\ manifest = None

-----------------------------------------------------------------------------
(* Inputs of the two reconcilers.  Every event of a bucket has the bucket's *)
(* signature as its first key; one event of each pool lacks payload fields. *)

Addresses == {10, 11}

DeployedPool ==
    {Event(contract_deployed_event_name, <<0, 1, a>>, None) : a \in Addresses}
    \cup {Event(contract_deployed_event_name, <<0, 2, 10>>, Some(1)),
          Event(contract_deployed_event_name, <<0, 1>>, None)}

UpgradedPool ==
    {Event(contract_upgraded_event_name, <<c, 10>>, b) :
        c \in {2, 3}, b \in {None, Some(1), Some(2)}}
    \cup {Event(contract_upgraded_event_name, <<3, 11>>, Some(2)),
          Event(contract_upgraded_event_name, <<2, 11>>, None),
          Event(contract_upgraded_event_name, <<2>>, Some(1))}

\* "P" is 80, "Q" is 81; 20480 is "P" followed by a zero byte.
RegisteredPool ==
    {Event(registered_models_event_name, <<c, p, 80>>, None) :
        c \in {1, 2, 3}, p \in {0, 1, 2}}
    \cup {Event(registered_models_event_name, <<1, 0, 81>>, None),
          Event(registered_models_event_name, <<2, 1, 81>>, None),
          Event(registered_models_event_name, <<1, 0, 20480>>, None),
          Event(registered_models_event_name, <<1, 0>>, None),
          Event(registered_models_event_name, <<1, 0, 80>>, Some(1)),
          Event(registered_models_event_name, <<2, 1, 80>>, Some(2)),
          Event(registered_models_event_name, <<3, 2, 80>>, Some(3))}

-----------------------------------------------------------------------------
(* parse_contracts_events applied to a pair of buckets. *)

InitContracts ==
    /\ pc = "parse_contracts_events"
    /\ contract_deployed_events \in SeqsUpTo(DeployedPool, MaxDeployed)
    /\ contract_upgraded_events \in SeqsUpTo(UpgradedPool, MaxUpgraded)
    /\ registered_models_events = <<>>
    /\ models_map = EmptyMap
    /\ cursor = 0
    /\ models = <<>>
    /\ contracts = <<>>
    /\ result = Pending
    /\ NoLedger

ParseContracts ==
    /\ pc = "parse_contracts_events"
    /\ LET r == parse_contracts_events(contract_deployed_events, contract_upgraded_events)
       IN  /\ result' = IF r.panic THEN Panic(r.msg) ELSE Ok
           /\ contracts' = r.val
    /\ pc' = "done"
    /\ UNCHANGED <<calls, replies, continuation_token, events, registered_models_events,
                   contract_deployed_events, contract_upgraded_events, models_map,
                   cursor, models, bootstrap, manifest>>

NextContracts == ParseContracts

SpecContracts == InitContracts /\ [][NextContracts]_vars

-----------------------------------------------------------------------------
(* parse_models_events applied to a bucket, one loop iteration per step. *)

InitModels ==
    /\ pc = "parse_models_events"
    /\ registered_models_events \in SeqsUpTo(RegisteredPool, MaxRegistered)
    /\ contract_deployed_events = <<>>
    /\ contract_upgraded_events = <<>>
    /\ models_map = EmptyMap
    /\ cursor = 0
    /\ models = <<>>
    /\ contracts = <<>>
    /\ result = Pending
    /\ NoLedger

\* Faulty variant of NextEvent: the events are taken in the order of their
\* block numbers (an absent one counting as 0, ties in retrieval order).
NextEventByBlock(evs, n) ==
    LET key(i) == IF IsSome(evs[i].block_number) THEN evs[i].block_number[1] ELSE 0
        rank(i) == Cardinality({j \in 1..Len(evs) :
                                   key(j) < key(i) \/ (key(j) = key(i) /\ j < i)})
    IN  evs[CHOOSE i \in 1..Len(evs) : rank(i) = n]

\* The event the loop takes after n iterations: the events in their order.
NextEvent(evs, n) == evs[n + 1]

\* for e in events { ... }
ModelsIterate ==
    /\ pc = "parse_models_events"
    /\ cursor < Len(registered_models_events)
    /\ LET r == Register(models_map, NextEvent(registered_models_events, cursor))
       IN  IF r.panic
           THEN /\ result' = Panic(r.msg)
                /\ pc' = "done"
                /\ UNCHANGED <<models_map, cursor>>
           ELSE /\ models_map' = r.val
                /\ cursor' = cursor + 1
                /\ UNCHANGED <<result, pc>>
    /\ UNCHANGED <<calls, replies, continuation_token, events, registered_models_events,
                   contract_deployed_events, contract_upgraded_events, models,
                   contracts, bootstrap, manifest>>

\* models.into_iter().map(..).collect()
ModelsCollect ==
    /\ pc = "parse_models_events"
    /\ cursor = Len(registered_models_events)
    /\ models' \in ModelsVecs(models_map)
    /\ result' = Ok
    /\ pc' = "done"
    /\ UNCHANGED <<calls, replies, continuation_token, events, registered_models_events,
                   contract_deployed_events, contract_upgraded_events, models_map,
                   cursor, contracts, bootstrap, manifest>>

NextModels == ModelsIterate \/ ModelsCollect

SpecModels == InitModels /\ [][NextModels]_vars

-----------------------------------------------------------------------------
(* The ledger: every call is answered with a value or with an error.  The  *)
(* provider errors are StarknetError::ContractNotFound,                    *)
(* StarknetError::ContractError and "Other" for every other ProviderError. *)

world_address == 7
DEFAULT_CHUNK_SIZE == 100

Call(op, block, address, token) ==
    [op |-> op, block_id |-> block, contract_address |-> address,
     continuation_token |-> token,
     chunk_size |-> IF op = "get_events" THEN DEFAULT_CHUNK_SIZE ELSE 0]

Replied(felts) ==
    [ok |-> TRUE, err |-> "", felts |-> felts, events |-> <<>>, continuation_token |-> None]
Failed(e) ==
    [ok |-> FALSE, err |-> e, felts |-> <<>>, events |-> <<>>, continuation_token |-> None]
Page(evs, token) ==
    [ok |-> TRUE, err |-> "", felts |-> <<>>, events |-> evs, continuation_token |-> token]

ProviderErrors == {"ContractNotFound", "ContractError", "Other"}
Failures == {Failed(e) : e \in ProviderErrors}

\* The pages the ledger may serve: deployments, upgrades and registrations,
\* an event with an unknown first key, an event without keys, an event whose
\* name is not a short string, an upgrade without its address.
LedgerPages ==
    {<<>>,
     <<Event(contract_deployed_event_name, <<0, 1, 10>>, Some(1)),
       Event(registered_models_event_name, <<1, 0, 80>>, Some(1))>>,
     <<Event(contract_upgraded_event_name, <<2, 10>>, Some(2)),
       Event(contract_deployed_event_name, <<0, 1, 11>>, Some(2)),
       Event(904, <<5, 10>>, Some(2))>>,
     <<Event(registered_models_event_name, <<2, 1, 80>>, Some(3)),
       [keys |-> <<>>, data |-> <<3, 10>>, block_number |-> Some(3)],
       Event(contract_upgraded_event_name, <<3, 10>>, None)>>,
     <<Event(registered_models_event_name, <<1, 0, 20480>>, Some(1))>>,
     <<Event(contract_upgraded_event_name, <<2>>, Some(1))>>}

Tokens == {Some("t1"), Some("t2")}

ClassHashReplies == {Replied(<<1>>)} \cup Failures
BaseReplies == {Replied(<<2>>)} \cup Failures
ModelReplies == {Replied(<<3, 0>>), Replied(<<3, 20>>)} \cup Failures
EventsReplies == {Page(p, t) : p \in LedgerPages, t \in Tokens \cup {None}} \cup Failures
NameReplies == {Replied(<<80>>), Replied(<<20480>>), Replied(<<>>)} \cup Failures

PagesFetched == Cardinality({k \in 1..Len(calls) : calls[k].op = "get_events"})

-----------------------------------------------------------------------------
(* Manifest::load_from_remote *)

\* Faulty variant of class_hash_error: ContractNotFound is not told apart.
class_hash_error_generic(cause) == Err("Provider", cause)

\* The error of get_class_hash_at as load_from_remote returns it.

class_hash_error(cause) ==
    IF cause = "ContractNotFound"
    THEN Err("RemoteWorldNotFound", "")
    ELSE Err("Provider", cause)

\* The three well-known names are written as strings.
Manifest(boot, ms, cs) ==
    [models |-> ms,
     contracts |-> cs,
     world |-> [name |-> "dojo::world::world", class_hash |-> boot.world_class_hash,
                address |-> Some(world_address), abi |-> None, reads |-> <<>>,
                writes |-> <<>>, computed |-> <<>>],
     resource_metadata |->
               [name |-> "dojo::resource_metadata::resource_metadata",
                class_hash |-> boot.resource_metadata_class_hash,
                address |-> boot.resource_metadata_address, abi |-> None,
                reads |-> <<>>, writes |-> <<>>, computed |-> <<>>],
     base |-> [name |-> "dojo::base::base", class_hash |-> boot.base_class_hash,
               abi |-> None]]

Init ==
    /\ pc = "get_class_hash_at"
    /\ calls = <<>>
    /\ replies = <<>>
    /\ continuation_token = None
    /\ events = <<>>
    /\ registered_models_events = <<>>
    /\ contract_deployed_events = <<>>
    /\ contract_upgraded_events = <<>>
    /\ models_map = EmptyMap
    /\ cursor = 0
    /\ models = <<>>
    /\ contracts = <<>>
    /\ bootstrap = [world_class_hash |-> 0, base_class_hash |-> 0,
                    resource_metadata_class_hash |-> 0,
                    resource_metadata_address |-> None]
    /\ manifest = None
    /\ result = Pending

\* provider.get_class_hash_at(BLOCK_ID, world_address).await.map_err(..)?
get_class_hash_at ==
    /\ pc = "get_class_hash_at"
    /\ \E res \in ClassHashReplies :
          /\ calls' = Append(calls, Call("get_class_hash_at", "Pending", world_address, None))
          /\ replies' = Append(replies, res)
          /\ IF res.ok
             THEN /\ bootstrap' = [bootstrap EXCEPT !.world_class_hash = res.felts[1]]
                  /\ pc' = "base"
                  /\ UNCHANGED result
             ELSE /\ result' = class_hash_error(res.err)
                  /\ pc' = "done"
                  /\ UNCHANGED bootstrap
    /\ UNCHANGED <<continuation_token, events, registered_models_events,
                   contract_deployed_events, contract_upgraded_events, models_map,
                   cursor, models, contracts, manifest>>

\* world.base().block_id(BLOCK_ID).call().await?
base ==
    /\ pc = "base"
    /\ \E res \in BaseReplies :
          /\ calls' = Append(calls, Call("base", "Pending", world_address, None))
          /\ replies' = Append(replies, res)
          /\ IF res.ok
             THEN /\ bootstrap' = [bootstrap EXCEPT !.base_class_hash = res.felts[1]]
                  /\ pc' = "model"
                  /\ UNCHANGED result
             ELSE /\ result' = Err("ContractRead", res.err)
                  /\ pc' = "done"
                  /\ UNCHANGED bootstrap
    /\ UNCHANGED <<continuation_token, events, registered_models_events,
                   contract_deployed_events, contract_upgraded_events, models_map,
                   cursor, models, contracts, manifest>>

\* world.model(RESOURCE_METADATA_MODEL_NAME).block_id(BLOCK_ID).call().await?
\* and the mapping of the zero address to None.
model ==
    /\ pc = "model"
    /\ \E res \in ModelReplies :
          /\ calls' = Append(calls, Call("model", "Pending", world_address, None))
          /\ replies' = Append(replies, res)
          /\ IF res.ok
             THEN /\ bootstrap' =
                        [bootstrap EXCEPT
                            !.resource_metadata_class_hash = res.felts[1],
                            !.resource_metadata_address =
                                IF res.felts[2] = 0 THEN None ELSE Some(res.felts[2])]
                  /\ pc' = "get_events"
                  /\ UNCHANGED result
             ELSE /\ result' = Err("ContractRead", res.err)
                  /\ pc' = "done"
                  /\ UNCHANGED bootstrap
    /\ UNCHANGED <<continuation_token, events, registered_models_events,
                   contract_deployed_events, contract_upgraded_events, models_map,
                   cursor, models, contracts, manifest>>

-----------------------------------------------------------------------------
(* get_events and get_remote_models_and_contracts *)

\* Faulty variant of Extended: the loop is left before the last page is added.
ExtendedUnlessLast(evs, res) ==
    IF res.continuation_token = None THEN evs ELSE evs \o res.events

\* events.extend(res.events)
Extended(evs, res) == evs \o res.events

\* Faulty variant of LoopBreaks: an empty page ends the loop too.
LoopBreaksOnEmptyPage(res) == res.continuation_token = None \/ res.events = <<>>

\* if continuation_token.is_none() { break; }
LoopBreaks(res) == res.continuation_token = None

\* Faulty variant of Bucket: an event without keys is taken into the bucket.
RECURSIVE BucketKeyless(_, _)
BucketKeyless(evs, name) ==
    IF evs = <<>> THEN <<>>
    ELSE IF Head(evs).keys = <<>> \/ Head(Head(evs).keys) = name
         THEN <<Head(evs)>> \o BucketKeyless(Tail(evs), name)
         ELSE BucketKeyless(Tail(evs), name)

\* The events whose first key is the given signature, in their order.
RECURSIVE Bucket(_, _)
Bucket(evs, name) ==
    IF evs = <<>> THEN <<>>
    ELSE IF Head(evs).keys # <<>> /\ Head(Head(evs).keys) = name
         THEN <<Head(evs)>> \o Bucket(Tail(evs), name)
         ELSE Bucket(Tail(evs), name)

NameOf(str) == [kind |-> "Name", name |-> str, err |-> "", cause |-> ""]

\* Faulty variant of ContractName: a reverted call is an error like any other.
ContractNameRevertFatal(res) ==
    IF res.ok
    THEN IF res.felts = <<>>
         THEN [kind |-> "Panic", name |-> <<>>, err |-> "index out of bounds", cause |-> ""]
         ELSE IF parse_cairo_short_string(res.felts[1]).ok
              THEN NameOf(parse_cairo_short_string(res.felts[1]).str)
              ELSE [kind |-> "Err", name |-> <<>>, err |-> "ParseCairoShortString", cause |-> ""]
    ELSE [kind |-> "Err", name |-> <<>>, err |-> "Provider", cause |-> res.err]

\* Faulty variant of ContractName: every failed call gives the empty name.
ContractNameAnyErrorEmpty(res) ==
    IF res.ok
    THEN IF res.felts = <<>>
         THEN [kind |-> "Panic", name |-> <<>>, err |-> "index out of bounds", cause |-> ""]
         ELSE IF parse_cairo_short_string(res.felts[1]).ok
              THEN NameOf(parse_cairo_short_string(res.felts[1]).str)
              ELSE [kind |-> "Err", name |-> <<>>, err |-> "ParseCairoShortString", cause |-> ""]
    ELSE NameOf(<<>>)

\* The name a reply to the dojo_resource call gives a contract, or the way
\* the call ends the reconstruction.
ContractName(res) ==
    IF res.ok
    THEN IF res.felts = <<>>
         THEN [kind |-> "Panic", name |-> <<>>, err |-> "index out of bounds", cause |-> ""]
         ELSE IF parse_cairo_short_string(res.felts[1]).ok
              THEN NameOf(parse_cairo_short_string(res.felts[1]).str)
              ELSE [kind |-> "Err", name |-> <<>>, err |-> "ParseCairoShortString", cause |-> ""]
    ELSE IF res.err = "ContractError"
         THEN NameOf(<<>>)
         ELSE [kind |-> "Err", name |-> <<>>, err |-> "Provider", cause |-> res.err]

\* What follows the last page without another await: the three buckets,
\* parse_models_events, parse_contracts_events and, when there is no
\* contract to name, the Manifest.
Reconcile(evs) ==
    LET reg == Bucket(evs, registered_models_event_name)
        dep == Bucket(evs, contract_deployed_event_name)
        upg == Bucket(evs, contract_upgraded_event_name)
        m == parse_models_events(reg)
        c == parse_contracts_events(dep, upg)
    IN  /\ registered_models_events' = reg
        /\ contract_deployed_events' = dep
        /\ contract_upgraded_events' = upg
        /\ cursor' = 0
        /\ IF m.panic
           THEN /\ result' = Panic(m.msg)
                /\ pc' = "done"
                /\ UNCHANGED <<models_map, models, contracts, manifest>>
           ELSE IF c.panic
           THEN /\ result' = Panic(c.msg)
                /\ pc' = "done"
                /\ models_map' = m.val
                /\ UNCHANGED <<models, contracts, manifest>>
           ELSE /\ models_map' = m.val
                /\ contracts' = c.val
                /\ \E ms \in ModelsVecs(m.val) :
                      /\ models' = ms
                      /\ IF c.val = <<>>
                         THEN /\ result' = Ok
                              /\ manifest' = Some(Manifest(bootstrap, ms, c.val))
                              /\ pc' = "done"
                         ELSE /\ pc' = "dojo_resource"
                              /\ UNCHANGED <<result, manifest>>

\* One iteration of the loop of get_events: a page is asked for with the
\* token of the previous page.
get_events ==
    /\ pc = "get_events"
    /\ \E res \in EventsReplies :
          /\ (res.ok /\ res.continuation_token # None) => PagesFetched + 1 < MaxPages
          /\ calls' = Append(calls, Call("get_events", "", world_address, continuation_token))
          /\ replies' = Append(replies, res)
          /\ IF ~res.ok
             THEN /\ result' = Err("Provider", res.err)
                  /\ pc' = "done"
                  /\ UNCHANGED <<continuation_token, events, registered_models_events,
                                 contract_deployed_events, contract_upgraded_events,
                                 models_map, cursor, models, contracts, manifest>>
             ELSE /\ continuation_token' = res.continuation_token
                  /\ events' = Extended(events, res)
                  /\ IF LoopBreaks(res)
                     THEN Reconcile(Extended(events, res))
                     ELSE UNCHANGED <<pc, result, registered_models_events,
                                      contract_deployed_events, contract_upgraded_events,
                                      models_map, cursor, models, contracts, manifest>>
    /\ UNCHANGED bootstrap

\* Faulty variant of WithName: the record is built anew from its address.
WithNameRebuilt(cs, i, name) ==
    [cs EXCEPT ![i] = [Contract(cs[i].address[1], 0) EXCEPT !.name = name]]

\* contract.name = name, for the i-th contract of the list.
WithName(cs, i, name) == [cs EXCEPT ![i].name = name]

\* One iteration of the loop that fetches the contracts' names, and the
\* Manifest after the last one.
dojo_resource ==
    /\ pc = "dojo_resource"
    /\ cursor < Len(contracts)
    /\ \E res \in NameReplies :
          LET name == ContractName(res)
              named == WithName(contracts, cursor + 1, name.name)
          IN  /\ calls' = Append(calls, Call("dojo_resource", "Latest",
                                             contracts[cursor + 1].address[1], None))
              /\ replies' = Append(replies, res)
              /\ IF name.kind = "Name"
                 THEN /\ contracts' = named
                      /\ cursor' = cursor + 1
                      /\ IF cursor + 1 = Len(contracts)
                         THEN /\ result' = Ok
                              /\ manifest' = Some(Manifest(bootstrap, models, named))
                              /\ pc' = "done"
                         ELSE UNCHANGED <<result, manifest, pc>>
                 ELSE /\ result' = IF name.kind = "Panic"
                                   THEN Panic(name.err)
                                   ELSE Err(name.err, name.cause)
                      /\ pc' = "done"
                      /\ UNCHANGED <<contracts, cursor, manifest>>
    /\ UNCHANGED <<continuation_token, events, registered_models_events,
                   contract_deployed_events, contract_upgraded_events, models_map,
                   models, bootstrap>>

Next == get_class_hash_at \/ base \/ model \/ get_events \/ dojo_resource

Spec == Init /\ [][Next]_vars

\* Every call awaited by load_from_remote returns, with a value or an error,
\* so a step that is possible is eventually taken; the ledger hands out at
\* most MaxPages - 1 pages with a continuation token (the guard of
\* get_events).
SpecLive == Spec /\ WF_vars(Next)

-----------------------------------------------------------------------------
(* Properties of parse_contracts_events, under SpecContracts. *)

Reconciled == pc = "done" /\ result = Ok

\* The positions of the upgrade events for address a that carry a block number.
OrderedUpgrades(a) ==
    {k \in 1..Len(contract_upgraded_events) :
        /\ Len(contract_upgraded_events[k].data) >= 2
        /\ contract_upgraded_events[k].data[2] = a
        /\ IsSome(contract_upgraded_events[k].block_number)}

BlockOf(k) == contract_upgraded_events[k].block_number[1]

\* C1: the class_hash of the Contract produced for a deployment event is the
\* class_hash of an upgrade event for its address whose block number is the
\* maximum among the upgrade events for that address that carry one; if none
\* carries a block number it is the deployment event's own class_hash.
C1_LatestUpgradeWins ==
    Reconciled =>
        \A i \in 1..Len(contracts) :
            LET a == contract_deployed_events[i].data[3]
            IN  IF OrderedUpgrades(a) = {}
                THEN contracts[i].class_hash = contract_deployed_events[i].data[2]
                ELSE \E k \in OrderedUpgrades(a) :
                        /\ \A j \in OrderedUpgrades(a) : BlockOf(j) <= BlockOf(k)
                        /\ contracts[i].class_hash = contract_upgraded_events[k].data[1]

\* One deployment of address 10 and two ordered upgrades of it, the later
\* event in retrieval order carrying the lower block number and another
\* class hash; the record carries the class hash of the higher block.
C1_Witness ==
    /\ Reconciled
    /\ Len(contracts) = 1
    /\ contracts[1].address = Some(10)
    /\ \E k, j \in OrderedUpgrades(10) :
          /\ k < j
          /\ BlockOf(j) < BlockOf(k)
          /\ contract_upgraded_events[k].data[1] # contract_upgraded_events[j].data[1]
          /\ contracts[1].class_hash = contract_upgraded_events[k].data[1]

\* An upgrade event with its payload and no block number.
Blockless(e) == Len(e.data) >= 2 /\ e.block_number = None
NotBlockless(e) == ~Blockless(e)
WithoutBlockless(evs) == SelectSeq(evs, NotBlockless)

\* C2: the outcome of parse_contracts_events is the outcome on the same
\* deployment events and the upgrade events with every block-less upgrade
\* event removed, wherever those stood in the sequence.
C2_BlocklessIgnored ==
    pc = "done" =>
        LET r == parse_contracts_events(contract_deployed_events,
                                        WithoutBlockless(contract_upgraded_events))
        IN  /\ result = IF r.panic THEN Panic(r.msg) ELSE Ok
            /\ contracts = r.val

\* A block-less upgrade of a deployed address stands after an ordered upgrade
\* of it and names a class hash the record does not carry.
C2_Witness ==
    /\ Reconciled
    /\ \E i \in 1..Len(contracts) :
          \E k, j \in 1..Len(contract_upgraded_events) :
              /\ k < j
              /\ k \in OrderedUpgrades(contract_deployed_events[i].data[3])
              /\ Blockless(contract_upgraded_events[j])
              /\ contract_upgraded_events[j].data[2] = contract_deployed_events[i].data[3]
              /\ contract_upgraded_events[j].data[1] # contracts[i].class_hash

\* C8: no two Contract records returned by parse_contracts_events share an
\* address, whatever the deployment events are.
C8_UniqueAddresses ==
    Reconciled =>
        \A i, j \in 1..Len(contracts) :
            i # j => contracts[i].address # contracts[j].address

\* C10: every address in the contracts list is the address of a deployment
\* event; an address known from upgrade events alone is not in the list.
C10_OnlyDeployedAddresses ==
    Reconciled =>
        \A i \in 1..Len(contracts) :
            \E j \in 1..Len(contract_deployed_events) :
                /\ Len(contract_deployed_events[j].data) >= 3
                /\ contracts[i].address = Some(contract_deployed_events[j].data[3])

\* Address 11 has an ordered upgrade and no deployment, address 10 is deployed.
C10_Witness ==
    /\ Reconciled
    /\ Len(contracts) >= 1
    /\ OrderedUpgrades(11) # {}
    /\ \A j \in 1..Len(contract_deployed_events) : contract_deployed_events[j].data[3] = 10

-----------------------------------------------------------------------------
(* Properties of parse_models_events, under SpecModels. *)

\* The event the next iteration processes, and its decoded name.
NextRegistration == TryIntoWorldEvent(registered_models_events[cursor + 1])
NextName == parse_cairo_short_string(NextRegistration.name).str

\* An iteration that ran to its end.
Iterated == pc = "parse_models_events" /\ cursor' = cursor + 1

\* The map after the iteration holds the event's class_hash for the event's
\* name and is otherwise as before.
EventApplied ==
    models_map' = [n \in DOMAIN models_map \cup {NextName} |->
                      IF n = NextName THEN NextRegistration.class_hash ELSE models_map[n]]

\* C3 as stated: an event is applied iff its prev_class_hash equals the
\* class_hash currently recorded for its name (the zero class hash when the
\* name has no record), and is a no-op otherwise.
C3_AppliedIffPrevMatches ==
    [][Iterated =>
          IF NextRegistration.prev_class_hash =
                (IF NextName \in DOMAIN models_map THEN models_map[NextName] ELSE 0)
          THEN EventApplied
          ELSE models_map' = models_map]_vars

\* C3 as amended: an event for a name that has a record is applied iff its
\* prev_class_hash equals the recorded class_hash and is a no-op otherwise;
\* an event for a name that has no record is always applied.
C3_AppliedIffPrevMatchesOrFirst ==
    [][Iterated =>
          IF NextName \in DOMAIN models_map
          THEN IF NextRegistration.prev_class_hash = models_map[NextName]
               THEN EventApplied
               ELSE models_map' = models_map
          ELSE EventApplied]_vars

\* Three events for one name have been processed: the second linked to the
\* first and was applied, the third did not link and was ignored.
C3_Witness ==
    /\ pc = "parse_models_events"
    /\ cursor = 3
    /\ LET e1 == TryIntoWorldEvent(registered_models_events[1])
           e2 == TryIntoWorldEvent(registered_models_events[2])
           e3 == TryIntoWorldEvent(registered_models_events[3])
       IN  /\ e1.name = e2.name /\ e2.name = e3.name
           /\ e2.prev_class_hash = e1.class_hash
           /\ e2.class_hash # e1.class_hash
           /\ e3.prev_class_hash # e2.class_hash
           /\ e3.class_hash # e2.class_hash
           /\ models_map[parse_cairo_short_string(e1.name).str] = e2.class_hash

-----------------------------------------------------------------------------
(* Properties of load_from_remote, under Spec.  calls and replies are the  *)
(* history of the ledger calls: replies[k] answers calls[k].               *)

EventCalls == {k \in 1..Len(calls) : calls[k].op = "get_events"}
NameCalls == {k \in 1..Len(calls) : calls[k].op = "dojo_resource"}

\* The pages served so far, in retrieval order (get_events calls follow the
\* three bootstrap calls).
PagesServed == [i \in 1..Cardinality(EventCalls) |-> replies[3 + i].events]

LastPageServed ==
    \E k \in EventCalls : replies[k].ok /\ replies[k].continuation_token = None

\* C4: the first get_events call carries no token and each later one the
\* token the previous call returned; no call follows the page whose token is
\* absent and the loop is not left before that page (or a failure); the
\* events returned are the concatenation of all the pages served, the last
\* page included.
C4_Pagination ==
    /\ \A k \in EventCalls :
          /\ calls[k].continuation_token =
                IF k - 1 \in EventCalls THEN replies[k - 1].continuation_token ELSE None
          /\ k + 1 \in EventCalls =>
                replies[k].ok /\ replies[k].continuation_token # None
    /\ (EventCalls # {} /\ pc # "get_events") =>
          \E k \in EventCalls :
              /\ k + 1 \notin EventCalls
              /\ ~replies[k].ok \/ replies[k].continuation_token = None
    /\ LastPageServed => events = Concat(PagesServed)

\* Three pages were served, the tokens of the first two differ, the first
\* and the last page hold events, and the fetcher has returned.
C4_Witness ==
    /\ Cardinality(EventCalls) = 3
    /\ LastPageServed
    /\ replies[4].continuation_token # replies[5].continuation_token
    /\ replies[4].events # <<>>
    /\ replies[6].events # <<>>
    /\ replies[4].events # replies[6].events
    /\ pc = "dojo_resource"

\* A call that failed, other than a name call that reverted.
Fatal(k) ==
    /\ ~replies[k].ok
    /\ ~(calls[k].op = "dojo_resource" /\ replies[k].err = "ContractError")

\* C5: a failed ledger call (a reverted name call excepted) makes
\* load_from_remote return an error and no Manifest, and it is the last call
\* issued: it is not retried and nothing is called after it.  A Manifest is
\* returned only with Ok.
C5_AllOrNothing ==
    /\ \A k \in 1..Len(calls) :
          Fatal(k) =>
              /\ result.kind = "Err"
              /\ manifest = None
              /\ k = Len(calls)
              /\ pc = "done"
    /\ manifest # None => result = Ok

\* The second name call failed after models and a first name were gathered.
C5_Witness ==
    /\ Cardinality(NameCalls) = 2
    /\ Fatal(Len(calls))
    /\ models # <<>>
    /\ contracts[1].name # <<>>
    /\ result = Err("Provider", "Other")

\* The position in contracts of the contract that call k names (the name
\* calls are the last calls issued).
Named(k) == k - (Len(calls) - Cardinality(NameCalls))

\* After call k the pass stands at the next contract, or has returned the
\* Manifest when there is none.
PassGoesOn(k) ==
    k = Len(calls) =>
        IF Named(k) < Len(contracts)
        THEN pc = "dojo_resource" /\ cursor = Named(k) /\ result = Pending
        ELSE pc = "done" /\ result = Ok /\ manifest # None

\* C6: a name call that reverts gives its contract the empty name and a name
\* call that returns a short string gives it the decoded string; in both
\* cases the pass goes on to the next contract, or returns the Manifest
\* after the last one.
C6_RevertedNameIsEmpty ==
    \A k \in NameCalls :
        /\ (~replies[k].ok /\ replies[k].err = "ContractError") =>
              /\ contracts[Named(k)].name = <<>>
              /\ PassGoesOn(k)
        /\ (replies[k].ok /\ replies[k].felts # <<>>
                /\ parse_cairo_short_string(replies[k].felts[1]).ok) =>
              /\ contracts[Named(k)].name = parse_cairo_short_string(replies[k].felts[1]).str
              /\ PassGoesOn(k)

\* A Manifest was returned although the first of two name calls reverted;
\* its first contract has the empty name and its second the name "P".
C6_Witness ==
    /\ result = Ok
    /\ Cardinality(NameCalls) = 2
    /\ replies[Len(calls) - 1].err = "ContractError"
    /\ manifest[1].contracts[1].name = <<>>
    /\ manifest[1].contracts[2].name = <<80>>

\* C7: when the coordinator's class-hash lookup fails it is the only call
\* issued; the failure is RemoteWorldNotFound for ContractNotFound and the
\* provider's error for every other failure.
C7_RemoteWorldNotFound ==
    (Len(replies) >= 1 /\ ~replies[1].ok) =>
        /\ Len(calls) = 1
        /\ result = IF replies[1].err = "ContractNotFound"
                    THEN Err("RemoteWorldNotFound", "")
                    ELSE Err("Provider", replies[1].err)

C7_Witness ==
    /\ Len(replies) = 1
    /\ calls[1].op = "get_class_hash_at"
    /\ replies[1].err = "ContractNotFound"
    /\ result.err = "RemoteWorldNotFound"
    /\ pc = "done"

\* C9: the calls are issued one after the other's reply, in the order
\* get_class_hash_at, base, model, then page fetches, then name calls: a
\* page fetch follows the successful model lookup or a page that returned a
\* token; a name call follows the page whose token is absent or a name call
\* that gave a name; the name calls are for the contracts in their order,
\* one for each contract when the Manifest is returned.
C9_CallOrder ==
    /\ Len(replies) = Len(calls)
    /\ \A k \in 1..Len(calls) :
          /\ k = 1 => calls[k].op = "get_class_hash_at"
          /\ k = 2 => calls[k].op = "base" /\ replies[1].ok
          /\ k = 3 => calls[k].op = "model" /\ replies[2].ok
          /\ k = 4 => calls[k].op = "get_events" /\ replies[3].ok
          /\ k > 4 =>
                \/ /\ calls[k].op = "get_events"
                   /\ calls[k - 1].op = "get_events"
                   /\ replies[k - 1].ok
                   /\ replies[k - 1].continuation_token # None
                \/ /\ calls[k].op = "dojo_resource"
                   /\ calls[k - 1].op = "get_events"
                   /\ replies[k - 1].ok
                   /\ replies[k - 1].continuation_token = None
                \/ /\ calls[k].op = "dojo_resource"
                   /\ calls[k - 1].op = "dojo_resource"
                   /\ ContractName(replies[k - 1]).kind = "Name"
    /\ \A k \in NameCalls :
          /\ Named(k) \in 1..Len(contracts)
          /\ Some(calls[k].contract_address) = contracts[Named(k)].address
    /\ result = Ok => Cardinality(NameCalls) = Len(contracts)

\* A Manifest with two contracts was returned after two pages, the first of
\* them holding a deployment.
C9_Witness ==
    /\ result = Ok
    /\ Cardinality(EventCalls) = 2
    /\ Cardinality(NameCalls) = 2
    /\ contract_deployed_events # <<>>
    /\ replies[4].events # <<>>
    /\ contracts[1].address # contracts[2].address


-----------------------------------------------------------------------------
(* Further properties of parse_models_events. *)

\* A registration event with its payload whose name is no short string.
UndecodableName(e) ==
    /\ TryIntoWorldEvent(e).variant = "ModelRegistered"
    /\ ~parse_cairo_short_string(TryIntoWorldEvent(e).name).ok

\* C11 (under Spec): when a fetched registration event carries a name that
\* is no short string, load_from_remote returns the error
\* ManifestError::ParseCairoShortString and no Manifest.
C11_DecodeErrorReturned ==
    (LastPageServed /\ \E k \in 1..Len(registered_models_events) :
                          UndecodableName(registered_models_events[k])) =>
        /\ result = Err("ParseCairoShortString", "")
        /\ manifest = None

\* The decoded names of the registration events of the bucket.
RegisteredNames ==
    {parse_cairo_short_string(TryIntoWorldEvent(registered_models_events[k]).name).str :
        k \in 1..Len(registered_models_events)}

ModelsParsed == pc = "done" /\ result = Ok

\* C12 (under SpecModels): the models returned have pairwise distinct names,
\* and the names returned are exactly the decoded names that occur in the
\* registration events.
C12_OneModelPerName ==
    ModelsParsed =>
        /\ \A i, j \in 1..Len(models) : models[i].name = models[j].name => i = j
        /\ {models[i].name : i \in 1..Len(models)} = RegisteredNames

\* Three events over the two names "P" and "Q" gave two models.
C12_Witness ==
    /\ ModelsParsed
    /\ Len(registered_models_events) = 3
    /\ RegisteredNames = {<<80>>, <<81>>}
    /\ Len(models) = 2

\* C13 (under SpecModels): an event for a name that has no entry is inserted
\* with its class_hash whatever its prev_class_hash is, and leaves the other
\* entries as they were.
C13_FirstAlwaysInserted ==
    [][(Iterated /\ NextName \notin DOMAIN models_map) =>
          /\ DOMAIN models_map' = DOMAIN models_map \cup {NextName}
          /\ models_map'[NextName] = NextRegistration.class_hash
          /\ \A n \in DOMAIN models_map : models_map'[n] = models_map[n]]_vars

\* The first event for "P" declared the previous class hash 2, which nothing
\* recorded matches, and its class hash 3 is recorded.
C13_Witness ==
    /\ pc = "parse_models_events"
    /\ cursor = 1
    /\ TryIntoWorldEvent(registered_models_events[1]).prev_class_hash = 2
    /\ TryIntoWorldEvent(registered_models_events[1]).class_hash = 3
    /\ models_map = (<<80>> :> 3)


-----------------------------------------------------------------------------
(* Further properties of parse_contracts_events, under SpecContracts. *)

Reorderings(n) == {p \in [1..n -> 1..n] : \A x, y \in 1..n : p[x] = p[y] => x = y}
Permuted(evs, p) == [i \in 1..Len(evs) |-> evs[p[i]]]

\* C14: with the deployment events fixed, every permutation of the upgrade
\* events gives the records the retrieved order gives, so every address has
\* the same class_hash whatever the arrival order of the upgrades.
C14_ArrivalOrderIrrelevant ==
    Reconciled =>
        \A p \in Reorderings(Len(contract_upgraded_events)) :
            parse_contracts_events(contract_deployed_events,
                                   Permuted(contract_upgraded_events, p)).val = contracts

\* The upgrade events for address a that carry the maximum block number
\* among those that carry one.
LatestUpgrades(a) ==
    {k \in OrderedUpgrades(a) : \A j \in OrderedUpgrades(a) : BlockOf(j) <= BlockOf(k)}

\* C20: when upgrade events for the address of a record carry block
\* numbers, the record has the class_hash of the first event in retrieval
\* order among those with the maximum block number: an event of the same
\* block number as the recorded one does not replace it.
C20_FirstOfLatestBlockKept ==
    Reconciled =>
        \A i \in 1..Len(contracts) :
            LET a == contract_deployed_events[i].data[3]
            IN  OrderedUpgrades(a) # {} =>
                    \E k \in LatestUpgrades(a) :
                        /\ \A j \in LatestUpgrades(a) : k <= j
                        /\ contracts[i].class_hash = contract_upgraded_events[k].data[1]

\* Address 10 is deployed and two of its upgrades carry the same, maximum
\* block number and different class hashes; the record has the class hash
\* of the earlier of the two.
C20_Witness ==
    /\ Reconciled
    /\ Len(contracts) >= 1
    /\ contracts[1].address = Some(10)
    /\ \E k, j \in LatestUpgrades(10) :
          /\ k < j
          /\ \A h \in LatestUpgrades(10) : k <= h
          /\ contract_upgraded_events[k].data[1] # contract_upgraded_events[j].data[1]
          /\ contracts[1].class_hash = contract_upgraded_events[k].data[1]


\* The bucket is the three links of a chain for one name, retrieved in the
\* order first link, third link, second link.
ChainRetrieved132 ==
    /\ Len(registered_models_events) = 3
    /\ LET first == TryIntoWorldEvent(registered_models_events[1])
           third == TryIntoWorldEvent(registered_models_events[2])
           second == TryIntoWorldEvent(registered_models_events[3])
       IN  /\ first.name = second.name /\ second.name = third.name
           /\ second.prev_class_hash = first.class_hash
           /\ third.prev_class_hash = second.class_hash
           /\ first.class_hash # second.class_hash
           /\ second.class_hash # third.class_hash
           /\ first.class_hash # third.class_hash

\* C15 (under SpecModels): the events are processed in retrieval order and
\* their block numbers are not consulted: when the links of a chain for one
\* name are retrieved in the order 1, 3, 2, the third link is ignored and
\* the second applied, so the class_hash returned is the second link's and
\* not the last link's, whatever block numbers the events carry.
C15_OrderSensitive ==
    (ModelsParsed /\ ChainRetrieved132) =>
        /\ Len(models) = 1
        /\ models[1].class_hash = TryIntoWorldEvent(registered_models_events[3]).class_hash
        /\ models[1].class_hash # TryIntoWorldEvent(registered_models_events[2]).class_hash

\* Such a chain was parsed whose events carry the block numbers 1, 3, 2: the
\* ledger order is that of the chain and the class hash returned is 2.
C15_Witness ==
    /\ ModelsParsed
    /\ ChainRetrieved132
    /\ registered_models_events[1].block_number = Some(1)
    /\ registered_models_events[2].block_number = Some(3)
    /\ registered_models_events[3].block_number = Some(2)
    /\ models[1].class_hash = 2


-----------------------------------------------------------------------------
(* Further properties of load_from_remote, under Spec. *)

IsRegistration(e) == e.keys # <<>> /\ e.keys[1] = registered_models_event_name
IsDeployment(e) == e.keys # <<>> /\ e.keys[1] = contract_deployed_event_name
IsUpgrade(e) == e.keys # <<>> /\ e.keys[1] = contract_upgraded_event_name
IsClassified(e) == IsRegistration(e) \/ IsDeployment(e) \/ IsUpgrade(e)

\* The fetched events without those that match no signature.
ClassifiedEvents == SelectSeq(events, IsClassified)

\* C16: once the events are fetched, each bucket is the subsequence, in
\* retrieval order, of the events whose first key is the bucket's signature,
\* so every event is in one bucket or, matching none or having no key, in
\* no bucket; the models and the contracts are those of the fetched events
\* with the unmatched events removed.
C16_Classification ==
    LastPageServed =>
        /\ registered_models_events = SelectSeq(events, IsRegistration)
        /\ contract_deployed_events = SelectSeq(events, IsDeployment)
        /\ contract_upgraded_events = SelectSeq(events, IsUpgrade)
        /\ Len(registered_models_events) + Len(contract_deployed_events)
              + Len(contract_upgraded_events) = Len(ClassifiedEvents)
        /\ (pc = "dojo_resource" \/ result = Ok) =>
              /\ models_map =
                    parse_models_events(SelectSeq(ClassifiedEvents, IsRegistration)).val
              /\ LET cs == parse_contracts_events(
                               SelectSeq(ClassifiedEvents, IsDeployment),
                               SelectSeq(ClassifiedEvents, IsUpgrade)).val
                 IN  /\ Len(contracts) = Len(cs)
                     /\ \A i \in 1..Len(cs) :
                           /\ contracts[i].address = cs[i].address
                           /\ contracts[i].class_hash = cs[i].class_hash

\* The fetched events hold an event with an unknown first key and an event
\* without keys between events of all three kinds, and the reconcilers ran.
C16_Witness ==
    /\ LastPageServed
    /\ pc = "dojo_resource"
    /\ \E i, j \in 1..Len(events) :
          /\ events[i].keys = <<>>
          /\ events[j].keys # <<>> /\ ~IsClassified(events[j])
          /\ j < i
          /\ \E k \in 1..Len(events) : i < k /\ IsUpgrade(events[k])
    /\ Len(registered_models_events) >= 2
    /\ Len(contract_deployed_events) >= 2
    /\ Len(contract_upgraded_events) >= 2


\* The reconcilers returned: the name pass runs or has run.
ContractsEmitted == pc = "dojo_resource" \/ NameCalls # {} \/ result = Ok

\* C17: the contract list has one record per deployment event, in the
\* retrieval order of the deployment events, each with its event's address;
\* the name calls are issued one per record in that order, and a successful
\* reconstruction has issued as many name calls as there are deployment
\* events.
C17_OneRecordOneCallPerDeployment ==
    ContractsEmitted =>
        /\ Len(contracts) = Len(contract_deployed_events)
        /\ \A i \in 1..Len(contracts) :
              contracts[i].address = Some(contract_deployed_events[i].data[3])
        /\ Cardinality(NameCalls) <= Len(contracts)
        /\ \A k \in NameCalls :
              /\ Named(k) \in 1..Len(contracts)
              /\ calls[k].contract_address = contracts[Named(k)].address[1]
        /\ result = Ok => Cardinality(NameCalls) = Len(contract_deployed_events)

\* A successful reconstruction from three deployment events, two of them of
\* the same address.
C17_Witness ==
    /\ pc = "done" /\ result = Ok
    /\ Len(contract_deployed_events) = 3
    /\ Cardinality(NameCalls) = 3
    /\ \E i, j \in 1..3 : i < j /\ contracts[i].address = contracts[j].address


\* The fields of a Contract record that reconciliation leaves at their
\* default values.
DefaultFields(c) ==
    /\ c.name = <<>>
    /\ c.abi = None
    /\ c.reads = <<>>
    /\ c.writes = <<>>
    /\ c.computed = <<>>

\* C18: the records parse_contracts_events emits have name, abi, reads,
\* writes and computed at their defaults; a step of the name pass changes at
\* most the name of the record it stands at and leaves every other field of
\* every record, the length and order of the list and the models unchanged;
\* the Manifest returned holds these models and contracts.
C18_Frame ==
    [][/\ pc = "get_events" =>
             \A i \in 1..Len(contracts') : DefaultFields(contracts'[i])
       /\ pc = "dojo_resource" =>
             /\ models' = models
             /\ Len(contracts') = Len(contracts)
             /\ \A i \in 1..Len(contracts) :
                   /\ contracts'[i].address = contracts[i].address
                   /\ contracts'[i].class_hash = contracts[i].class_hash
                   /\ contracts'[i].abi = contracts[i].abi
                   /\ contracts'[i].reads = contracts[i].reads
                   /\ contracts'[i].writes = contracts[i].writes
                   /\ contracts'[i].computed = contracts[i].computed
                   /\ i # cursor + 1 => contracts'[i] = contracts[i]
             /\ manifest' # None =>
                   /\ manifest'[1].models = models
                   /\ manifest'[1].contracts = contracts'
      ]_vars

\* The pass has named two contracts, one of them upgraded, and a model was
\* retrieved with them.
C18_Witness ==
    /\ pc = "done" /\ result = Ok
    /\ Len(contracts) = 2
    /\ contracts[1].name = <<80>>
    /\ contracts[1].class_hash = 2
    /\ contracts[2].name = <<>>
    /\ models # <<>>


-----------------------------------------------------------------------------
(* Termination of load_from_remote, under SpecLive. *)

LastReply == replies[Len(replies)]

\* The reconstruction ended by returning to its caller: Ok with the Manifest,
\* or an error value and no Manifest.
Completed ==
    /\ pc = "done"
    /\ \/ result = Ok /\ manifest # None
       \/ result.kind = "Err" /\ manifest = None

\* C19: when every ledger call returns and the ledger serves a page without
\* continuation token after finitely many pages, load_from_remote eventually
\* completes with a Manifest or an error; the get_events loop is left only
\* on a failed call or on a page without continuation token, and goes on
\* after every page that carries one.
C19_Termination ==
    /\ <>Completed
    /\ [][pc = "get_events" =>
             (pc' = "get_events" <=>
                 (LastReply'.ok /\ LastReply'.continuation_token # None))]_vars

====
